---------------------------- MODULE Spec2Model ----------------------------
(***************************************************************************)
(* A model of interpPES (src/interpPES/__init__.py): the band interpolator *)
(* interp_by_neb, the two-level interp_by_multiscale_neb and the driver    *)
(* interp_PES.                                                             *)
(*                                                                         *)
(* Python objects are identified by a number (their identity); the heap    *)
(* `atoms` maps every live ase.Atoms object to the part of its state the   *)
(* program and its collaborators touch.  Python frames are records on the  *)
(* sequence `stack`; the topmost frame is the one that runs.  An exception *)
(* that nobody catches unwinds the whole stack.                            *)
(***************************************************************************)
EXTENDS Integers, Sequences, FiniteSets, TLC

VARIABLES
    stack,      \* the Python call stack, innermost frame last
    retval,     \* what the last finished call handed to its caller
    atoms,      \* the heap of Atoms objects: identity -> state
    calls,      \* history: one record per call of interp_by_neb
    trace,      \* history: the calls made to the collaborators and the points
                \* resolved, in order
    mcalls,     \* history: one record per call of interp_by_multiscale_neb
    images,     \* the caller's list of point dictionaries
    flatten,    \* the caller's flatten argument
    budget      \* what is left of the bound on the size of the input

vars == <<stack, retval, atoms, calls, trace, mcalls, images, flatten, budget>>

-----------------------------------------------------------------------------
(* Bounds of the model.                                                    *)

\* the largest image count a direct call of an interpolator is given
MaxImages == 3
\* the size of the largest point list the driver is given (see Cost)
MaxWork == 7

-----------------------------------------------------------------------------
(* Python values.                                                          *)

\* Python's None
None == "None"

\* the empty dictionary
EmptyDict == <<>>

\* a dictionary with the key when the option (a sequence of 0 or 1 values)
\* holds a value
Opt(key, s) == IF Len(s) = 0 THEN EmptyDict ELSE key :> s[1]

\* dict.get with a default
Get(d, key, default) == IF key \in DOMAIN d THEN d[key] ELSE default

\* the dictionary without some keys
Without(d, keys) == [k \in DOMAIN d \ keys |-> d[k]]

\* list slicing s[1:]
Tail1(s) == IF Len(s) = 0 THEN <<>> ELSE Tail(s)

\* zip(a, b): pairs up to the shorter length
Zip(a, b) ==
    LET n == IF Len(a) < Len(b) THEN Len(a) ELSE Len(b)
    IN  [k \in 1..n |-> <<a[k], b[k]>>]

\* the elements of a sequence
Range(s) == {s[k] : k \in DOMAIN s}

RECURSIVE Concat(_)
\* itertools.chain.from_iterable over a sequence of sequences
Concat(ss) == IF Len(ss) = 0 THEN <<>> ELSE Head(ss) \o Concat(Tail(ss))

RECURSIVE SumSeq(_)
\* the sum of a sequence of numbers
SumSeq(s) == IF Len(s) = 0 THEN 0 ELSE Head(s) + SumSeq(Tail(s))

-----------------------------------------------------------------------------
(* The heap.                                                               *)

\* a newly built Atoms object: no calculator, no constraint, positions as
\* built; copyOf is the object it was copied from (0: none)
NewAtoms(src) == [calc |-> FALSE, constraint |-> FALSE, moved |-> 0, copyOf |-> src]

\* the identity the next allocated object gets
FreshId(heap) == Cardinality(DOMAIN heap) + 1

\* the heap after allocating one object
Alloc(heap, src) == heap @@ (FreshId(heap) :> NewAtoms(src))

\* the heap after an in-place update of the positions of some objects
Move(heap, objs) ==
    [o \in DOMAIN heap |->
        IF o \in objs THEN [heap[o] EXCEPT !.moved = @ + 1] ELSE heap[o]]

\* one entry of the history: what interp_by_neb call number cid did
Event(op, cid, objs) == [op |-> op, cid |-> cid, point |-> 0, objs |-> objs]

\* one entry of the history: what the driver did for a point of its list
PointEvent(op, point, objs) == [op |-> op, cid |-> 0, point |-> point, objs |-> objs]

-----------------------------------------------------------------------------
(* The stack.                                                              *)

Running == Len(stack) > 0
Top == stack[Len(stack)]
Pop == SubSeq(stack, 1, Len(stack) - 1)
SetTop(f) == [stack EXCEPT ![Len(stack)] = f]
At(fn, pc) == Running /\ Top.fn = fn /\ Top.pc = pc

\* nothing was returned or raised yet
NoValue == [kind |-> "none"]
Returned(v) == [kind |-> "return", val |-> v]
Raised(exc) == [kind |-> "raise", exc |-> exc]

-----------------------------------------------------------------------------
(* interp_by_neb                                                           *)

\* the names interp_by_neb binds itself; every other keyword goes to NEB
NebNamed == {"interp", "calculator", "constraint", "fmax", "steps"}

\* the default force threshold 0.5, in tenths
DefaultFmax == 5
\* the default step budget
DefaultSteps == 10

\* the frame of a call interp_by_neb(initial, final, n_images, **kw)
NebFrame(initial, final, n_images, kw, cid) ==
    [fn |-> "interp_by_neb", pc |-> "start",
     initial |-> initial, final |-> final, n_images |-> n_images,
     interp |-> Get(kw, "interp", "idpp"),
     calculator |-> Get(kw, "calculator", None),
     constraint |-> Get(kw, "constraint", None),
     fmax |-> Get(kw, "fmax", DefaultFmax),
     steps |-> Get(kw, "steps", DefaultSteps),
     kwargs |-> Without(kw, NebNamed),
     images |-> <<>>, k |-> 0, cid |-> cid]

\* the history record of a call of interp_by_neb
NebCallRecord(initial, final, n_images, kw, caller, mid, heap) ==
    [caller |-> caller, mid |-> mid, initial |-> initial, final |-> final,
     n_images |-> n_images, kw |-> kw, heap0 |-> heap,
     done |-> FALSE, ret |-> <<>>, heap1 |-> heap]

\* a variant without the degenerate case: the band is always built
NoMiddleImages_never(n_images) == FALSE

\* the test of the degenerate case
NoMiddleImages(n_images) == n_images = 0

\* lines 44-48: the degenerate case returns the two endpoints themselves;
\* otherwise the band starts with the initial image
NebStart ==
    /\ At("interp_by_neb", "start")
    /\ IF NoMiddleImages(Top.n_images)
       THEN /\ stack' = Pop
            /\ retval' = Returned(<<Top.initial, Top.final>>)
            /\ calls' = [calls EXCEPT ![Top.cid].done = TRUE,
                                      ![Top.cid].ret = <<Top.initial, Top.final>>,
                                      ![Top.cid].heap1 = atoms]
       ELSE /\ stack' = SetTop([Top EXCEPT !.pc = "loop", !.images = <<Top.initial>>])
            /\ UNCHANGED <<retval, calls>>
    /\ UNCHANGED <<atoms, trace, images, flatten, budget, mcalls>>

\* a variant that forgets the copy: the image is the initial image itself
CopyImage_alias(initial, heap) == initial

\* initial.copy(): the identity of the copy, a new object
CopyImage(initial, heap) == FreshId(heap)

\* lines 49-56: one iteration of the loop: copy the initial image, append
\* the copy, give it a calculator and the constraint when there is one
NebCopyImage ==
    /\ At("interp_by_neb", "loop")
    /\ Top.k < Top.n_images
    /\ LET f == Top
           image == CopyImage(f.initial, atoms)
           h1 == Alloc(atoms, f.initial)
           h2 == IF f.calculator # None
                 THEN [h1 EXCEPT ![image].calc = TRUE] ELSE h1
           h3 == IF f.constraint # None
                 THEN [h2 EXCEPT ![image].constraint = TRUE] ELSE h2
           e1 == <<Event("copy", f.cid, <<f.initial, FreshId(atoms)>>)>>
           e2 == IF f.calculator # None
                 THEN <<Event("set_calculator", f.cid, <<image>>)>> ELSE <<>>
           e3 == IF f.constraint # None
                 THEN <<Event("set_constraint", f.cid, <<image>>)>> ELSE <<>>
       IN  /\ atoms' = h3
           /\ trace' = trace \o e1 \o e2 \o e3
           /\ stack' = SetTop([f EXCEPT !.images = Append(@, image), !.k = @ + 1])
    /\ UNCHANGED <<retval, calls, images, flatten, budget, mcalls>>

\* NEB.interpolate places the images between the two ends of the band:
\* it updates the positions of the intermediate images in place
Interpolate(heap, band) == Move(heap, Range(SubSeq(band, 2, Len(band) - 1)))

\* lines 57-60: close the band with the final image, build the NEB object
\* and interpolate with the named method
NebInterpolate ==
    /\ At("interp_by_neb", "loop")
    /\ Top.k >= Top.n_images
    /\ LET band == Append(Top.images, Top.final)
       IN  /\ atoms' = Interpolate(atoms, band)
           /\ trace' = Append(trace, Event("interpolate", Top.cid, band))
           /\ stack' = SetTop([Top EXCEPT !.pc = "relax", !.images = band])
    /\ UNCHANGED <<retval, calls, images, flatten, budget, mcalls>>

\* the test that guards the relaxation
Relaxes(calculator) == calculator # None

\* MDMin(neb).run moves the intermediate images of the band, the two ends
\* of a NEB band are fixed
Relax(heap, band) == Move(heap, Range(SubSeq(band, 2, Len(band) - 1)))

\* a variant that returns the images between the two ends only
NebResult_between(band) == SubSeq(band, 2, Len(band) - 1)

\* the images the call returns: neb.images is the list NEB was built from
NebResult(band) == band

\* lines 62-66: relax the band when a calculator factory was given, and
\* return the images of the band
NebFinish ==
    /\ At("interp_by_neb", "relax")
    /\ LET f == Top
           relax == Relaxes(f.calculator)
           h == IF relax THEN Relax(atoms, f.images) ELSE atoms
       IN  /\ atoms' = h
           /\ trace' = IF relax
                       THEN Append(trace, Event("relax", f.cid, f.images))
                       ELSE trace
           /\ stack' = Pop
           /\ retval' = Returned(NebResult(f.images))
           /\ calls' = [calls EXCEPT ![f.cid].done = TRUE,
                                     ![f.cid].ret = NebResult(f.images),
                                     ![f.cid].heap1 = h]
    /\ UNCHANGED <<images, flatten, budget, mcalls>>

NebStep == NebStart \/ NebCopyImage \/ NebInterpolate \/ NebFinish

-----------------------------------------------------------------------------
(* A direct call of interp_by_neb.                                         *)

\* the keyword dictionaries a call is tried with
KwSet ==
    { Opt("calculator", c) @@ Opt("constraint", k) @@ Opt("interp", m)
        @@ Opt("steps", s) @@ Opt("climb", x) :
        c \in {<<>>, <<"EMT">>}, k \in {<<>>, <<"FixAtoms">>},
        m \in {<<>>, <<"linear">>}, s \in {<<>>, <<3>>}, x \in {<<>>, <<TRUE>>} }

\* two endpoint objects, or one object given as both ends
EndPoints == {<<1, 2>>, <<1, 1>>}

HeapOf(ids) == [o \in ids |-> NewAtoms(0)]

InitNeb ==
    \E ends \in EndPoints, n \in 0..MaxImages, kw \in KwSet :
        LET heap == HeapOf(Range(ends))
        IN  /\ atoms = heap
            /\ stack = <<NebFrame(ends[1], ends[2], n, kw, 1)>>
            /\ calls = <<NebCallRecord(ends[1], ends[2], n, kw, "top", 0, heap)>>
            /\ mcalls = <<>>
            /\ retval = NoValue
            /\ trace = <<>>
            /\ images = <<>>
            /\ flatten = TRUE
            /\ budget = 0

NextNeb == NebStep

SpecNeb == InitNeb /\ [][NextNeb]_vars

-----------------------------------------------------------------------------
(* interp_by_multiscale_neb                                                *)

\* the frame of a call
\* interp_by_multiscale_neb(initial, final, n_neb_images, n_interp_images, **kwargs)
MsFrame(initial, final, n_neb_images, n_interp_images, kwargs, mid) ==
    [fn |-> "interp_by_multiscale_neb", pc |-> "coarse",
     initial |-> initial, final |-> final,
     n_neb_images |-> n_neb_images, n_interp_images |-> n_interp_images,
     kwargs |-> kwargs, mid |-> mid]

\* the history record of a call of interp_by_multiscale_neb
MsCallRecord(initial, final, n_neb_images, n_interp_images, kwargs) ==
    [initial |-> initial, final |-> final,
     n_neb_images |-> n_neb_images, n_interp_images |-> n_interp_images,
     kwargs |-> kwargs, neb_res |-> <<>>, done |-> FALSE, out |-> <<>>]

\* the keywords the coarse call of interp_by_neb is given
CoarseKw(kwargs) == kwargs

\* line 78, the call: the coarse band, with the caller's keywords
MsCoarse ==
    /\ At("interp_by_multiscale_neb", "coarse")
    /\ LET f == Top
           cid == Len(calls) + 1
           kw == CoarseKw(f.kwargs)
       IN  /\ stack' = Append(SetTop([f EXCEPT !.pc = "chain"]),
                              NebFrame(f.initial, f.final, f.n_neb_images, kw, cid))
           /\ calls' = Append(calls,
                 NebCallRecord(f.initial, f.final, f.n_neb_images, kw,
                               "coarse", f.mid, atoms))
    /\ UNCHANGED <<retval, atoms, trace, mcalls, images, flatten, budget>>

\* the lazy sequence the call returns: nothing of it is computed yet
Lazy(neb_res, n_interp_images, kwargs, mid) ==
    [kind |-> "lazy", neb_res |-> neb_res, n_interp_images |-> n_interp_images,
     kwargs |-> kwargs, mid |-> mid]

\* lines 78-83: bind the coarse band and return the chain over the
\* generator of the fine bands
MsReturn ==
    /\ At("interp_by_multiscale_neb", "chain")
    /\ retval.kind = "return"
    /\ stack' = Pop
    /\ retval' = Lazy(retval.val, Top.n_interp_images, Top.kwargs, Top.mid)
    /\ mcalls' = [mcalls EXCEPT ![Top.mid].neb_res = retval.val]
    /\ UNCHANGED <<atoms, calls, trace, images, flatten, budget>>

\* a variant that forgets the [1:]: every image is paired with itself
SegmentPairs_unshifted(neb_res) == Zip(neb_res, neb_res)

\* line 82: the adjacent pairs of the coarse band
SegmentPairs(neb_res) == Zip(neb_res, Tail1(neb_res))

\* the frame of the generator of lines 80-83, run by whoever consumes it
ChainFrame(lazy) ==
    [fn |-> "chain", pc |-> "next",
     pairs |-> SegmentPairs(lazy.neb_res), seg |-> 1,
     n_interp_images |-> lazy.n_interp_images, kwargs |-> lazy.kwargs,
     mid |-> lazy.mid, out |-> <<>>]

\* a variant that hands the keywords on to the fine calls
FineKw_forward(kwargs) == kwargs

\* the keywords a fine call of interp_by_neb is given: none
FineKw(kwargs) == EmptyDict

\* line 81: the fine band of the next pair, with no keyword
ChainCallFine ==
    /\ At("chain", "next")
    /\ Top.seg <= Len(Top.pairs)
    /\ LET f == Top
           cid == Len(calls) + 1
           i == f.pairs[f.seg][1]
           j == f.pairs[f.seg][2]
           kw == FineKw(f.kwargs)
       IN  /\ stack' = Append(SetTop([f EXCEPT !.pc = "yield"]),
                              NebFrame(i, j, f.n_interp_images, kw, cid))
           /\ calls' = Append(calls,
                 NebCallRecord(i, j, f.n_interp_images, kw, "fine", f.mid, atoms))
    /\ UNCHANGED <<retval, atoms, trace, mcalls, images, flatten, budget>>

\* line 80: the chain hands on the images of the fine band, in order
ChainYield ==
    /\ At("chain", "yield")
    /\ retval.kind = "return"
    /\ stack' = SetTop([Top EXCEPT !.pc = "next", !.seg = @ + 1,
                                   !.out = @ \o retval.val])
    /\ UNCHANGED <<retval, atoms, calls, trace, mcalls, images, flatten, budget>>

\* lines 80-83: no pair is left, the chain is exhausted
ChainExhausted ==
    /\ At("chain", "next")
    /\ Top.seg > Len(Top.pairs)
    /\ stack' = Pop
    /\ retval' = Returned(Top.out)
    /\ mcalls' = [mcalls EXCEPT ![Top.mid].done = TRUE, ![Top.mid].out = Top.out]
    /\ UNCHANGED <<atoms, calls, trace, images, flatten, budget>>

MsStep == MsCoarse \/ MsReturn \/ ChainCallFine \/ ChainYield \/ ChainExhausted

-----------------------------------------------------------------------------
(* A direct call of interp_by_multiscale_neb, the result of which the      *)
(* caller consumes.                                                        *)

InitMulti ==
    \E ends \in EndPoints, c \in 0..MaxImages, f \in 0..MaxImages, kw \in KwSet :
        LET heap == HeapOf(Range(ends))
        IN  /\ atoms = heap
            /\ stack = <<MsFrame(ends[1], ends[2], c, f, kw, 1)>>
            /\ mcalls = <<MsCallRecord(ends[1], ends[2], c, f, kw)>>
            /\ calls = <<>>
            /\ retval = NoValue
            /\ trace = <<>>
            /\ images = <<>>
            /\ flatten = TRUE
            /\ budget = 0

\* the caller iterates over the returned sequence
Consume ==
    /\ ~Running
    /\ retval.kind = "lazy"
    /\ stack' = <<ChainFrame(retval)>>
    /\ retval' = NoValue
    /\ UNCHANGED <<atoms, calls, trace, mcalls, images, flatten, budget>>

NextMulti == Consume \/ MsStep \/ NebStep

SpecMulti == InitMulti /\ [][NextMulti]_vars

-----------------------------------------------------------------------------
(* aug_point                                                               *)

\* a variant that counts from 0: one duplicate too many
AugPoint_inclusive(point, n_dupl) == [k \in 1..(n_dupl + 1) |-> point]

\* line 95: n_dupl references to the point itself
AugPoint(point, n_dupl) == [k \in 1..n_dupl |-> point]

-----------------------------------------------------------------------------
(* interp_PES                                                              *)

\* the frame of a call interp_PES(images, flatten); lines 153-154
PesFrame(imgs_in, flat) ==
    [fn |-> "interp_PES", pc |-> IF Len(imgs_in) = 0 THEN "return" ELSE "read",
     images |-> imgs_in, flatten |-> flat, imgs |-> <<>>, idx |-> 1]

\* ase.io.read finds the file and understands it
Readable(file) == file = "reac.xyz"

\* line 156: the point brings its Atoms object
HasAtoms(i) == "atoms" \in DOMAIN i

\* line 163: the point asks to be reoriented
WantsReorient(i) == "reorient" \in DOMAIN i

\* lines 156-162: the point cannot be resolved, read raises
ReadFails(i) == ~HasAtoms(i) /\ ~Readable(i.file)

\* lines 156-162: the heap once the point is resolved
Resolved(i, heap) == IF HasAtoms(i) THEN heap ELSE Alloc(heap, 0)

\* lines 156-162: the Atoms object of the point
ResolvedAtoms(i, heap) == IF HasAtoms(i) THEN i.atoms ELSE FreshId(heap)

\* a variant that aligns every point with the first one
AlignReference_first(imgs) == imgs[1].atoms

\* line 164: the reference of the alignment, the last resolved point
AlignReference(imgs) == imgs[Len(imgs)].atoms

\* minimize_rotation_and_translation(ref, target) moves the target in place
Align(heap, ref, target) == Move(heap, {target})

\* the loop position after iteration idx of the loop of lines 154-168
AfterRead(f) ==
    IF f.idx < Len(f.images) THEN [f EXCEPT !.idx = @ + 1]
    ELSE [f EXCEPT !.pc = "dupl", !.idx = 1]

\* the loop position after iteration idx of the loop of lines 171-174
AfterDupl(f) ==
    IF f.idx < Len(f.imgs) THEN [f EXCEPT !.idx = @ + 1]
    ELSE IF Len(f.imgs) > 1 THEN [f EXCEPT !.pc = "interp", !.idx = 1]
    ELSE [f EXCEPT !.pc = "return"]

\* the loop position after iteration idx of the loop of lines 177-183
AfterInterp(f) ==
    IF f.idx < Len(f.imgs) - 1 THEN [f EXCEPT !.pc = "interp", !.idx = @ + 1]
    ELSE [f EXCEPT !.pc = "return"]

\* lines 154-162: reading the file of a point fails; nobody catches it
PesReadFails ==
    /\ At("interp_PES", "read")
    /\ ReadFails(Top.images[Top.idx])
    /\ stack' = <<>>
    /\ retval' = Raised("IOError")
    /\ trace' = Append(trace, PointEvent("read", Top.idx, <<>>))
    /\ UNCHANGED <<atoms, calls, mcalls, images, flatten, budget>>

\* a variant that ignores the reorientation of a point without predecessor
PesNoPredecessor_ignored ==
    /\ At("interp_PES", "read")
    /\ LET f == Top
           i == f.images[f.idx]
           a == IF "atoms" \in DOMAIN i THEN i.atoms ELSE FreshId(atoms)
           img == ("atoms" :> a) @@ ("_frames" :> <<a>>) @@ i
       IN  /\ IF "atoms" \in DOMAIN i THEN TRUE ELSE i.file = "reac.xyz"
           /\ "reorient" \in DOMAIN i
           /\ Len(f.imgs) = 0
           /\ atoms' = IF "atoms" \in DOMAIN i THEN atoms ELSE Alloc(atoms, 0)
           /\ trace' = Append(trace, PointEvent("load", f.idx, <<a>>))
           /\ stack' = SetTop(
                 IF f.idx < Len(f.images)
                 THEN [f EXCEPT !.imgs = Append(@, img), !.idx = @ + 1]
                 ELSE [f EXCEPT !.imgs = Append(@, img), !.pc = "dupl", !.idx = 1])
    /\ UNCHANGED <<retval, calls, mcalls, images, flatten, budget>>

\* lines 154-164: imgs[-1] of the empty list raises; nobody catches it
PesNoPredecessor ==
    /\ At("interp_PES", "read")
    /\ LET i == Top.images[Top.idx]
       IN  /\ ~ReadFails(i)
           /\ WantsReorient(i)
           /\ Len(Top.imgs) = 0
           /\ atoms' = Resolved(i, atoms)
           /\ trace' = IF HasAtoms(i) THEN trace
                       ELSE Append(trace, PointEvent("read", Top.idx, <<FreshId(atoms)>>))
    /\ stack' = <<>>
    /\ retval' = Raised("IndexError")
    /\ UNCHANGED <<calls, mcalls, images, flatten, budget>>

\* lines 154-168: one point is resolved, aligned with its predecessor when
\* it asks for it, and appended with its one-element frame list
PesLoad ==
    /\ At("interp_PES", "read")
    /\ LET f == Top
           i == f.images[f.idx]
           a == ResolvedAtoms(i, atoms)
           h == Resolved(i, atoms)
           e == IF HasAtoms(i) THEN <<>> ELSE <<PointEvent("read", f.idx, <<a>>)>>
           img == ("atoms" :> a) @@ ("_frames" :> <<a>>) @@ i
       IN  /\ ~ReadFails(i)
           /\ WantsReorient(i) => Len(f.imgs) > 0
           /\ IF WantsReorient(i)
              THEN /\ atoms' = Align(h, AlignReference(f.imgs), a)
                   /\ trace' = trace \o e \o
                         <<PointEvent("align", f.idx, <<AlignReference(f.imgs), a>>),
                           PointEvent("load", f.idx, <<a>>)>>
              ELSE /\ atoms' = h
                   /\ trace' = trace \o e \o <<PointEvent("load", f.idx, <<a>>)>>
           /\ stack' = SetTop(AfterRead([f EXCEPT !.imgs = Append(@, img)]))
    /\ UNCHANGED <<retval, calls, mcalls, images, flatten, budget>>

\* lines 171-174: the duplicates of one point
PesDupl ==
    /\ At("interp_PES", "dupl")
    /\ LET f == Top
           i == f.imgs[f.idx]
       IN  IF "dupl" \in DOMAIN i
           THEN LET d == AugPoint(i.atoms, i.dupl)
                IN  /\ stack' = SetTop(AfterDupl(
                           [f EXCEPT !.imgs[f.idx]._frames = @ \o d]))
                    /\ trace' = Append(trace, PointEvent("aug_point", f.idx, d))
           ELSE /\ stack' = SetTop(AfterDupl(f))
                /\ trace' = trace
    /\ UNCHANGED <<retval, atoms, calls, mcalls, images, flatten, budget>>

\* line 177: the pairs of a point and its successor
Successors(imgs) == Zip(imgs, Tail1(imgs))

\* lines 177-179: a point without interpolation has no bridge
PesSkipInterp ==
    /\ At("interp_PES", "interp")
    /\ "interp" \notin DOMAIN Successors(Top.imgs)[Top.idx][1]
    /\ stack' = SetTop(AfterInterp(Top))
    /\ UNCHANGED <<retval, atoms, calls, trace, mcalls, images, flatten, budget>>

\* the names interp_by_multiscale_neb binds from the interp dictionary
MsNamed == {"n_neb_images", "n_interp_images"}

\* lines 181-183, the call: the bridge from the point to its successor
PesCallMultiscale ==
    /\ At("interp_PES", "interp")
    /\ LET f == Top
           curr == Successors(f.imgs)[f.idx][1]
           succ == Successors(f.imgs)[f.idx][2]
           mid == Len(mcalls) + 1
       IN  /\ "interp" \in DOMAIN curr
           /\ stack' = Append(SetTop([f EXCEPT !.pc = "extend"]),
                 MsFrame(curr.atoms, succ.atoms,
                         curr.interp.n_neb_images, curr.interp.n_interp_images,
                         Without(curr.interp, MsNamed), mid))
           /\ mcalls' = Append(mcalls,
                 MsCallRecord(curr.atoms, succ.atoms,
                         curr.interp.n_neb_images, curr.interp.n_interp_images,
                         Without(curr.interp, MsNamed)))
    /\ UNCHANGED <<retval, atoms, calls, trace, images, flatten, budget>>

\* line 181: list.extend iterates over the returned sequence
PesExtend ==
    /\ At("interp_PES", "extend")
    /\ retval.kind = "lazy"
    /\ stack' = Append(SetTop([Top EXCEPT !.pc = "extended"]), ChainFrame(retval))
    /\ retval' = NoValue
    /\ UNCHANGED <<atoms, calls, trace, mcalls, images, flatten, budget>>

\* a variant that puts the bridge before the duplicates
PesExtended_front ==
    /\ At("interp_PES", "extended")
    /\ retval.kind = "return"
    /\ LET fr == Top.imgs[Top.idx]._frames
           f == [Top EXCEPT !.imgs[Top.idx]._frames =
                     <<Head(fr)>> \o retval.val \o Tail(fr)]
       IN  stack' = SetTop(
               IF f.idx < Len(f.imgs) - 1 THEN [f EXCEPT !.pc = "interp", !.idx = @ + 1]
               ELSE [f EXCEPT !.pc = "return"])
    /\ UNCHANGED <<retval, atoms, calls, trace, mcalls, images, flatten, budget>>

\* line 181: the frames of the bridge are at the end of the frame list
PesExtended ==
    /\ At("interp_PES", "extended")
    /\ retval.kind = "return"
    /\ stack' = SetTop(AfterInterp(
           [Top EXCEPT !.imgs[Top.idx]._frames = @ \o retval.val]))
    /\ UNCHANGED <<retval, atoms, calls, trace, mcalls, images, flatten, budget>>

\* line 185: the frame lists of the points, in order
FrameSets(imgs) == [k \in DOMAIN imgs |-> imgs[k]._frames]

\* lines 185-189: one flat path, or the frame lists
PesReturn ==
    /\ At("interp_PES", "return")
    /\ stack' = Pop
    /\ retval' = IF Top.flatten
                 THEN Returned(Concat(FrameSets(Top.imgs)))
                 ELSE Returned(FrameSets(Top.imgs))
    /\ UNCHANGED <<atoms, calls, trace, mcalls, images, flatten, budget>>

PesStep ==
    \/ PesReadFails \/ PesNoPredecessor \/ PesLoad \/ PesDupl \/ PesSkipInterp
    \/ PesCallMultiscale \/ PesExtend \/ PesExtended \/ PesReturn

-----------------------------------------------------------------------------
(* The caller: a script that builds the list of points and calls the       *)
(* driver (src/example/interp.py).                                         *)

\* the keyword dictionaries an interp dictionary is tried with
DriverKw ==
    { Opt("calculator", c) : c \in {<<>>, <<"EMT">>} }

\* the interp dictionaries of at most a given size: one for the key, one
\* per image and per keyword
InterpDicts(size) ==
    UNION { { ("n_neb_images" :> c) @@ ("n_interp_images" :> f) @@ kw :
                kw \in {d \in DriverKw : 1 + c + f + Cardinality(DOMAIN d) <= size} } :
            c \in 0..size, f \in 0..size }

\* the ways a point names its configuration: an Atoms object of its own,
\* the Atoms object of an earlier point, or a file (read the same way with
\* and without a format, lines 159-162)
SourceDicts(heap) ==
    { "atoms" :> o : o \in DOMAIN heap \cup {FreshId(heap)} }
    \cup { "file" :> "reac.xyz", "file" :> "gone.xyz" }

\* the size of a point dictionary in a heap: one for the point, one per key
\* beyond its own Atoms object, one per duplicate and per image
Cost(p, heap) ==
    1 + Cardinality(DOMAIN p \ {"atoms", "interp"})
      + (IF "atoms" \in DOMAIN p /\ p.atoms \in DOMAIN heap THEN 1 ELSE 0)
      + (IF "dupl" \in DOMAIN p THEN p.dupl ELSE 0)
      + (IF "interp" \in DOMAIN p
         THEN p.interp.n_neb_images + p.interp.n_interp_images
              + Cardinality(DOMAIN p.interp) - 1
         ELSE 0)

\* the point dictionaries of at most a given size
PointDicts(heap, size) ==
    UNION { { p \in { src @@ Opt("reorient", r) @@ Opt("dupl", d) @@ Opt("interp", ip) :
                        r \in {<<>>, <<0>>, <<1>>},
                        d \in {<<>>} \cup {<<k>> : k \in 0..(size - 2)} } :
                Cost(p, heap) <= size } :
            src \in SourceDicts(heap),
            ip \in {<<>>} \cup {<<x>> : x \in InterpDicts(size - 1)} }

\* the script adds a point to the list (src/example/interp.py, IMAGES)
AddPoint ==
    /\ ~Running
    /\ retval.kind = "none"
    /\ \E p \in PointDicts(atoms, budget) :
        /\ images' = Append(images, p)
        /\ budget' = budget - Cost(p, atoms)
        /\ atoms' = IF HasAtoms(p) /\ p.atoms \notin DOMAIN atoms
                    THEN Alloc(atoms, 0) ELSE atoms
    /\ UNCHANGED <<stack, retval, calls, trace, mcalls, flatten>>

\* the script calls interp_PES(IMAGES, flatten)
PesCall ==
    /\ ~Running
    /\ retval.kind = "none"
    /\ stack' = <<PesFrame(images, flatten)>>
    /\ UNCHANGED <<retval, atoms, calls, trace, mcalls, images, flatten, budget>>

Init ==
    /\ stack = <<>>
    /\ retval = NoValue
    /\ atoms = <<>>
    /\ calls = <<>>
    /\ trace = <<>>
    /\ mcalls = <<>>
    /\ images = <<>>
    /\ flatten \in BOOLEAN
    /\ budget = MaxWork

Next == AddPoint \/ PesCall \/ PesStep \/ MsStep \/ NebStep

Spec == Init /\ [][Next]_vars

-----------------------------------------------------------------------------
(* What the histories say.                                                 *)

\* the positions of the history with a given operation
Positions(op) == {t \in DOMAIN trace : trace[t].op = op}

\* the positions of the history where a collaborator was given a band
BandPositions == Positions("interpolate") \cup Positions("relax")

\* the number of positions of a sequence that hold a value
Count(s, v) == Cardinality({k \in DOMAIN s : s[k] = v})

\* the call of the driver returned a path
PesDone == ~Running /\ retval.kind = "return"

\* the points resolved so far, and the Atoms object of a resolved point
LoadedPoints == {trace[t].point : t \in Positions("load")}
ConfigOf(k) == trace[CHOOSE t \in Positions("load") : trace[t].point = k].objs[1]

\* the duplication count of a point, 0 when it has none
DuplOf(p) == IF "dupl" \in DOMAIN p THEN p.dupl ELSE 0

\* a point declares an interpolation and has a successor
Bridges(k) == k < Len(images) /\ "interp" \in DOMAIN images[k]

\* the number of frames the bridge of a point must have
BridgeLength(k) ==
    IF Bridges(k)
    THEN (images[k].interp.n_neb_images + 1) * (images[k].interp.n_interp_images + 2)
    ELSE 0

\* the multiscale call that bridges point k: calls are made in point order
BridgeCall(k) == Cardinality({j \in 1..k : Bridges(j)})

-----------------------------------------------------------------------------
(* interp_by_neb called directly.                                          *)

\* C1: a call with N >= 1 returns N+2 images, the first is the initial
\* configuration, the last the final one, and the N in between are distinct
\* new objects copied from the initial configuration, whatever the keywords.
C1_BandOfNPlus2 ==
    \A c \in DOMAIN calls :
        (calls[c].done /\ calls[c].n_images >= 1) =>
            LET r == calls[c].ret
                n == calls[c].n_images
            IN  /\ Len(r) = n + 2
                /\ r[1] = calls[c].initial
                /\ r[n + 2] = calls[c].final
                /\ \A k \in 2..(n + 1) :
                      /\ r[k] \notin DOMAIN calls[c].heap0
                      /\ r[k] \in DOMAIN atoms
                      /\ atoms[r[k]].copyOf = calls[c].initial
                      /\ \A j \in 2..(n + 1) : r[j] = r[k] => j = k

\* a call with several images and a calculator factory and a constraint
\* has returned
C1_Witness ==
    \E c \in DOMAIN calls :
        /\ calls[c].done
        /\ calls[c].n_images >= 2
        /\ {"calculator", "constraint"} \subseteq DOMAIN calls[c].kw

\* C2: a call with image count 0 returns the two configurations it was
\* given, leaves the heap as it was (no copy, nothing changed) and calls
\* neither the band interpolation nor the relaxation, with or without a
\* calculator factory.
C2_DegenerateBand ==
    \A c \in DOMAIN calls :
        calls[c].n_images = 0 =>
            /\ \A t \in DOMAIN trace : trace[t].cid # c
            /\ calls[c].done =>
                  /\ calls[c].ret = <<calls[c].initial, calls[c].final>>
                  /\ calls[c].heap1 = calls[c].heap0

\* a call with image count 0 and a calculator factory has returned
C2_Witness ==
    \E c \in DOMAIN calls :
        /\ calls[c].done
        /\ calls[c].n_images = 0
        /\ "calculator" \in DOMAIN calls[c].kw

-----------------------------------------------------------------------------
(* interp_by_multiscale_neb called directly.                               *)

\* the fine calls of a multiscale call, in the order they were made
FineCalls(m) ==
    SelectSeq([c \in DOMAIN calls |-> c],
              LAMBDA c : calls[c].mid = m /\ calls[c].caller = "fine")

\* C3: the consumed result has (C+1)*(F+2) frames, it is the bands of the
\* fine calls one after the other, one per adjacent pair of the coarse
\* band; it starts with the initial and ends with the final configuration,
\* and every interior coarse image is there exactly twice, side by side.
C3_MultiscaleShape ==
    \A m \in DOMAIN mcalls :
        mcalls[m].done =>
            LET C == mcalls[m].n_neb_images
                F == mcalls[m].n_interp_images
                out == mcalls[m].out
                coarse == mcalls[m].neb_res
                fine == FineCalls(m)
            IN  /\ Len(out) = (C + 1) * (F + 2)
                /\ Len(coarse) = C + 2
                /\ Len(fine) = C + 1
                /\ \A s \in 1..(C + 1) :
                      /\ calls[fine[s]].initial = coarse[s]
                      /\ calls[fine[s]].final = coarse[s + 1]
                      /\ SubSeq(out, (s - 1) * (F + 2) + 1, s * (F + 2))
                            = calls[fine[s]].ret
                /\ out[1] = mcalls[m].initial
                /\ out[Len(out)] = mcalls[m].final
                /\ \A s \in 2..(C + 1) :
                      /\ out[(s - 1) * (F + 2)] = coarse[s]
                      /\ out[(s - 1) * (F + 2) + 1] = coarse[s]
                      /\ Count(out, coarse[s]) = 2

\* a multiscale call with several coarse images and fine images is consumed
C3_Witness ==
    \E m \in DOMAIN mcalls :
        /\ mcalls[m].done
        /\ mcalls[m].n_neb_images >= 2
        /\ mcalls[m].n_interp_images >= 1

\* C9: the coarse call gets all the keywords of the multiscale call, a fine
\* call gets none; a fine call starts only when the coarse call is over;
\* no fine call attaches a calculator or a constraint or relaxes; the band
\* is relaxed at most once per multiscale call, in the coarse call, and
\* only with a calculator factory and a coarse count of at least 1.
C9_KeywordsOnlyCoarse ==
    /\ \A c \in DOMAIN calls :
          /\ calls[c].caller = "coarse" =>
                /\ DOMAIN calls[c].kw = DOMAIN mcalls[calls[c].mid].kwargs
                /\ \A k \in DOMAIN calls[c].kw :
                      calls[c].kw[k] = mcalls[calls[c].mid].kwargs[k]
          /\ calls[c].caller = "fine" =>
                /\ DOMAIN calls[c].kw = {}
                /\ \E c0 \in 1..(c - 1) :
                      /\ calls[c0].mid = calls[c].mid
                      /\ calls[c0].caller = "coarse"
                      /\ calls[c0].done
                /\ \A t \in DOMAIN trace :
                      trace[t].cid = c => trace[t].op \in {"copy", "interpolate"}
    /\ \A t \in Positions("relax") :
          LET c == trace[t].cid
          IN  /\ calls[c].caller = "coarse"
              /\ "calculator" \in DOMAIN mcalls[calls[c].mid].kwargs
              /\ mcalls[calls[c].mid].n_neb_images >= 1
              /\ \A u \in Positions("relax") :
                    calls[trace[u].cid].mid = calls[c].mid => u = t

\* a multiscale call with a calculator factory, a constraint and a method
\* has relaxed its coarse band and is consumed, fine bands included
C9_Witness ==
    \E m \in DOMAIN mcalls :
        /\ mcalls[m].done
        /\ {"calculator", "constraint", "interp"} \subseteq DOMAIN mcalls[m].kwargs
        /\ mcalls[m].n_neb_images >= 1
        /\ mcalls[m].n_interp_images >= 1
        /\ Positions("relax") # {}

-----------------------------------------------------------------------------
(* interp_PES.                                                             *)

\* the frames of a point, as its dictionary asks for them: its own
\* configuration, its duplicates, the bridge to its successor
FramesOf(k) ==
    <<ConfigOf(k)>>
    \o [j \in 1..DuplOf(images[k]) |-> ConfigOf(k)]
    \o (IF Bridges(k) THEN mcalls[BridgeCall(k)].out ELSE <<>>)

\* C4: the flat path has one frame per point, one per duplicate, and
\* (n_neb_images+1)*(n_interp_images+2) frames for every point that has an
\* interp dictionary and a successor; two bare points give two frames.
C4_FlatLength ==
    (PesDone /\ flatten) =>
        /\ Len(retval.val) =
              SumSeq([k \in DOMAIN images |-> 1 + DuplOf(images[k]) + BridgeLength(k)])
        /\ (Len(images) = 2 /\ \A k \in 1..2 : DOMAIN images[k] \subseteq {"atoms", "file"})
              => Len(retval.val) = 2

\* a flat path of two points, the first with duplicates and a bridge with a
\* coarse image, the last with an interp dictionary of its own
C4_Witness ==
    /\ PesDone /\ flatten
    /\ Len(images) = 2
    /\ DuplOf(images[1]) >= 1
    /\ "interp" \in DOMAIN images[1]
    /\ images[1].interp.n_neb_images >= 1
    /\ "interp" \in DOMAIN images[2]

\* C5: without flatten the result has one frame list per point, in order:
\* the configuration of the point, then as many duplicates, each the same
\* configuration, as its count says, then the bridge from it to its
\* successor; with flatten the result is these lists one after the other.
C5_FrameSequences ==
    PesDone =>
        /\ LoadedPoints = DOMAIN images
        /\ \A k \in DOMAIN images :
              Bridges(k) =>
                  /\ mcalls[BridgeCall(k)].initial = ConfigOf(k)
                  /\ mcalls[BridgeCall(k)].final = ConfigOf(k + 1)
                  /\ mcalls[BridgeCall(k)].done
        /\ IF flatten
           THEN retval.val = Concat([k \in DOMAIN images |-> FramesOf(k)])
           ELSE /\ Len(retval.val) = Len(images)
                /\ \A k \in DOMAIN images : retval.val[k] = FramesOf(k)

\* frame lists are returned, one of them with duplicates before a bridge
C5_Witness ==
    /\ PesDone /\ ~flatten
    /\ \E k \in DOMAIN images :
          /\ DuplOf(images[k]) >= 1
          /\ Bridges(k)
          /\ Len(mcalls[BridgeCall(k)].out) > 2

\* the position of the history where point k was aligned (0: nowhere)
AlignedAt(k) ==
    IF \E t \in Positions("align") : trace[t].point = k
    THEN CHOOSE t \in Positions("align") : trace[t].point = k
    ELSE 0

\* the position of the history where point k was resolved
LoadedAt(k) == CHOOSE t \in Positions("load") : trace[t].point = k

\* C6: points are resolved in list order; a point after the first that
\* asks for reorientation is aligned once, just before it is recorded, its
\* configuration the target and the configuration of the point before it
\* the reference, that point resolved and, when it asked for it, aligned
\* already; and no duplicate is made and no band is built before the last
\* alignment.
C6_AlignmentOrder ==
    /\ \A t, u \in Positions("load") :
          t < u <=> trace[t].point < trace[u].point
    /\ \A k \in LoadedPoints :
          /\ k <= Len(images)
          /\ \A j \in 1..k : j \in LoadedPoints
          /\ ("reorient" \in DOMAIN images[k] /\ images[k].reorient = 1) =>
                /\ k > 1
                /\ Cardinality({t \in Positions("align") : trace[t].point = k}) = 1
                /\ AlignedAt(k) = LoadedAt(k) - 1
                /\ trace[AlignedAt(k)].objs = <<ConfigOf(k - 1), ConfigOf(k)>>
                /\ LoadedAt(k - 1) < AlignedAt(k)
                /\ "reorient" \in DOMAIN images[k - 1] =>
                      /\ AlignedAt(k - 1) > 0
                      /\ AlignedAt(k - 1) < AlignedAt(k)
                      /\ trace[AlignedAt(k - 1)].objs[2] = trace[AlignedAt(k)].objs[1]
    /\ \A t \in Positions("align") :
          \A u \in DOMAIN trace :
              trace[u].op \in {"aug_point", "copy", "interpolate", "relax"} => t < u

\* three points, the second and the third reoriented, and a path with
\* duplicates or a bridge returned
C6_Witness ==
    /\ PesDone
    /\ Len(images) = 3
    /\ \A k \in 2..3 : "reorient" \in DOMAIN images[k] /\ images[k].reorient = 1
    /\ Positions("aug_point") \cup Positions("interpolate") # {}

\* the first point asks for reorientation
FirstWantsReorient ==
    /\ Len(images) > 0
    /\ "reorient" \in DOMAIN images[1]
    /\ images[1].reorient = 1

\* some point names a file that cannot be read
SomePointUnreadable ==
    \E k \in DOMAIN images : "atoms" \notin DOMAIN images[k] /\ images[k].file = "gone.xyz"

\* C7: when the first point asks for reorientation the call raises: the
\* alignment is never called and no path is returned; and when a point
\* cannot be resolved the call raises, no path is returned, and nothing is
\* duplicated or interpolated.
C7_FatalErrors ==
    /\ FirstWantsReorient =>
          /\ Positions("align") = {}
          /\ Positions("load") = {}
          /\ retval.kind \in {"none", "raise"}
          /\ (retval.kind = "raise" /\ ~ReadFails(images[1])) =>
                retval.exc = "IndexError"
    /\ (FirstWantsReorient \/ SomePointUnreadable) =>
          /\ retval.kind \in {"none", "raise"}
          /\ Running => (Len(stack) = 1 /\ Top.fn = "interp_PES" /\ Top.pc = "read")
          /\ Positions("aug_point") = {} /\ calls = <<>> /\ mcalls = <<>>
    /\ retval.kind = "raise" =>
          /\ ~Running
          /\ FirstWantsReorient \/ SomePointUnreadable
             \/ (Len(images) > 0 /\ "reorient" \in DOMAIN images[1])

\* the call raised because the first point asked for reorientation
C7_Witness ==
    /\ ~Running
    /\ retval.kind = "raise"
    /\ retval.exc = "IndexError"
    /\ FirstWantsReorient
    /\ Len(images) >= 2

\* C8: the alignment is called for a point exactly when the flag of the
\* point is on: a resolved point without the key, or with the key set to
\* an off value, is not aligned.
C8_AlignedIffFlagOn ==
    \A k \in LoadedPoints :
        AlignedAt(k) > 0 <=>
            ("reorient" \in DOMAIN images[k] /\ images[k].reorient = 1)

\* the objects that were emitted as duplicates of a point
Duplicates == UNION {Range(trace[t].objs) : t \in Positions("aug_point")}

\* C10 as claimed: an object that is a duplicate frame is never given to
\* the alignment and is in no band given to the interpolation or the
\* relaxation.
C10_DuplicatesNeverPassed ==
    \A t \in Positions("align") \cup BandPositions :
        Range(trace[t].objs) \cap Duplicates = {}

\* C10 as amended: a duplicate frame is the configuration of its point,
\* the same object.  That object is given to the alignment only before
\* any duplicate is emitted, and in a band given to the interpolation or
\* the relaxation it is the first or the last image only: every image in
\* between is a new copy.  Its positions were updated by alignments only.
C10_DuplicatesOnlyBandEnds ==
    /\ \A t \in Positions("aug_point") :
          /\ \A j \in DOMAIN trace[t].objs : trace[t].objs[j] = ConfigOf(trace[t].point)
          /\ \A u \in Positions("align") : u < t
    /\ \A t \in BandPositions :
          \A j \in 2..(Len(trace[t].objs) - 1) :
              /\ trace[t].objs[j] \notin Duplicates
              /\ atoms[trace[t].objs[j]].copyOf # 0
    /\ \A o \in Duplicates :
          atoms[o].moved =
              Cardinality({u \in Positions("align") : trace[u].objs[2] = o})

\* a point was aligned and duplicated, and its configuration was an end of
\* a band given to the interpolation
C10_Witness ==
    \E t \in Positions("aug_point"), u \in BandPositions, v \in Positions("align") :
        /\ Len(trace[t].objs) >= 1
        /\ trace[t].objs[1] \in {trace[u].objs[1], trace[u].objs[Len(trace[u].objs)]}
        /\ trace[v].objs[2] = trace[t].objs[1]
        /\ PesDone

=============================================================================
